---- MODULE Spec2Model ----
(***************************************************************************)
(* Model of the weekly menu-board generator (create_table.py and the       *)
(* illustration call of image_gen.py).                                     *)
(*                                                                         *)
(* Text is a sequence of one-character strings, so that str.replace,       *)
(* str.strip and the escape tables act on characters as in the code.       *)
(***************************************************************************)
EXTENDS Naturals, Integers, Sequences, FiniteSets, TLC

(***************************************************************************)
(* Bounds of the model.                                                    *)
(***************************************************************************)
\* longest raw text handed to the text functions
MaxLen == 3
\* longest item list handed to has_content
MaxItems == 3

(***************************************************************************)
(* Text helpers: Python's str methods on sequences of characters.          *)
(***************************************************************************)
\* the characters str.strip() removes: the characters for which
\* str.isspace() is true ("U+000B" is the one character of that code point)
Whitespace ==
    { "\t", "\n", "U+000B", "\f", "\r", "U+001C", "U+001D", "U+001E", "U+001F",
      " ", "U+0085", "U+00A0", "U+1680", "U+2000", "U+2001", "U+2002",
      "U+2003", "U+2004", "U+2005", "U+2006", "U+2007", "U+2008", "U+2009",
      "U+200A", "U+2028", "U+2029", "U+202F", "U+205F", "U+3000" }

RECURSIVE LStrip(_)
LStrip(s) ==
    IF s # <<>> /\ Head(s) \in Whitespace THEN LStrip(Tail(s)) ELSE s

RECURSIVE RStrip(_)
RStrip(s) ==
    IF s # <<>> /\ s[Len(s)] \in Whitespace
    THEN RStrip(SubSeq(s, 1, Len(s) - 1))
    ELSE s

\* str.strip()
Strip(s) == RStrip(LStrip(s))

\* old occurs in s at position i
OccursAt(s, old, i) ==
    i + Len(old) - 1 <= Len(s) /\ SubSeq(s, i, i + Len(old) - 1) = old

\* str.replace(old, new) for a non-empty old: the leftmost occurrence is
\* replaced and the scan goes on behind it, so occurrences never overlap
RECURSIVE Replace(_, _, _)
Replace(s, old, new) ==
    IF \A i \in 1..Len(s) : ~OccursAt(s, old, i) THEN s
    ELSE LET first == CHOOSE i \in 1..Len(s) :
                        /\ OccursAt(s, old, i)
                        /\ \A j \in 1..(i - 1) : ~OccursAt(s, old, j)
         IN SubSeq(s, 1, first - 1) \o new
            \o Replace(SubSeq(s, first + Len(old), Len(s)), old, new)

\* the replacement sequences of LATEX_SPECIAL_CHARS
EscAmp == <<"\\", "&">>
EscPercent == <<"\\", "%">>
EscDollar == <<"\\", "$">>
EscHash == <<"\\", "#">>
EscUnderscore == <<"\\", "_">>
EscLBrace == <<"\\", "{">>
EscRBrace == <<"\\", "}">>
EscTilde ==
    <<"\\", "t", "e", "x", "t", "a", "s", "c", "i", "i",
      "t", "i", "l", "d", "e", "{", "}">>
EscCaret ==
    <<"\\", "t", "e", "x", "t", "a", "s", "c", "i", "i",
      "c", "i", "r", "c", "u", "m", "{", "}">>
EscBackslash ==
    <<"\\", "t", "e", "x", "t", "b", "a", "c", "k", "s",
      "l", "a", "s", "h", "{", "}">>

\* LATEX_SPECIAL_CHARS, in the dict's insertion order: <<char, escape>>
LATEX_SPECIAL_CHARS ==
    << <<"&", EscAmp>>, <<"%", EscPercent>>, <<"$", EscDollar>>,
       <<"#", EscHash>>, <<"_", EscUnderscore>>,
       <<"{", EscLBrace>>, <<"}", EscRBrace>>, <<"~", EscTilde>>,
       <<"^", EscCaret>>, <<"\\", EscBackslash>> >>

\* the for loop of escape_latex_text: rules k..end applied in order
RECURSIVE EscapeFrom(_, _)
EscapeFrom(s, k) ==
    IF k > Len(LATEX_SPECIAL_CHARS) THEN s
    ELSE EscapeFrom(Replace(s, <<LATEX_SPECIAL_CHARS[k][1]>>,
                            LATEX_SPECIAL_CHARS[k][2]), k + 1)

escape_latex_text(text) == EscapeFrom(text, 1)

\* reverse_mapping of unescape_latex_text, in insertion order: <<escape, char>>
reverse_mapping ==
    << <<EscAmp, "&">>, <<EscPercent, "%">>, <<EscDollar, "$">>,
       <<EscHash, "#">>, <<EscUnderscore, "_">>,
       <<EscLBrace, "{">>, <<EscRBrace, "}">>, <<EscTilde, "~">>,
       <<EscCaret, "^">>, <<EscBackslash, "\\">> >>

\* the for loop of unescape_latex_text
RECURSIVE UnescapeFrom(_, _)
UnescapeFrom(s, k) ==
    IF k > Len(reverse_mapping) THEN s
    ELSE UnescapeFrom(Replace(s, reverse_mapping[k][1],
                              <<reverse_mapping[k][2]>>), k + 1)

unescape_latex_text(text) == UnescapeFrom(text, 1)

\* the literals of has_content's exclusion list ['-', '*', '', 'nan']
NonContentTokens == { <<"-">>, <<"*">>, <<>>, <<"n", "a", "n">> }

\* has_content with the exclusion test made on the item as given, untrimmed
YieldsTruthy_Untrimmed(item) ==
    /\ item # <<>>
    /\ item \notin NonContentTokens
    /\ Strip(item) # <<>>

\* an item the generator of has_content yields, and yields as truthy
YieldsTruthy(item) ==
    /\ item # <<>>
    /\ Strip(item) \notin NonContentTokens
    /\ Strip(item) # <<>>

\* has_content looking at the first item only
has_content_FirstOnly(items_list) ==
    Len(items_list) > 0 /\ YieldsTruthy(items_list[1])

has_content(items_list) ==
    \E i \in 1..Len(items_list) : YieldsTruthy(items_list[i])

(***************************************************************************)
(* Class constants and the pure helpers of the day-table pipeline.         *)
(***************************************************************************)
DAY_NAMES ==
    <<"Montag", "Dienstag", "Mittwoch", "Donnerstag", "Freitag", "Samstag",
      "Sonntag">>

DEFAULT_VALUES_WEEKDAY == << <<>>, <<>>, <<"T">>, <<"E">>, <<"S">>, <<>> >>

DEFAULT_VALUES_TUESDAY_THURSDAY ==
    << <<>>, <<>>, <<"E">>, <<"S">>, <<"A">> >>

\* a float NaN cell of the data frame (no text is equal to it)
NaN == <<"float-nan">>

\* excluded_items of process_menu_items ("u-umlaut" is the one character u-umlaut)
excluded_items ==
    { <<"-">>, <<"*">>,
      <<"T", "a", "g", "e", "s", "m", "e", "n", "u-umlaut", ":">>,
      <<"V", "e", "g", "e", "t", "a", "r", "i", "s", "c", "h", ":">>,
      <<"S", "a", "l", "a", "t", "t", "e", "l", "l", "e", "r", ":">>,
      <<"A", "u", "s", "w", "e", "i", "c", "h", "m", "e", "n", "u-umlaut", ":">>,
      <<"V", "e", "g", "i", " ", "d", "i">>,
      <<"V", "e", "g", "i", " ", "d", "o">> }

\* process_menu_items: the cells kept, stripped and escaped, in row order
RECURSIVE process_menu_items(_)
process_menu_items(col_df) ==
    IF col_df = <<>> THEN <<>>
    ELSE LET cell == Head(col_df)
             rest == process_menu_items(Tail(col_df))
         IN IF cell # NaN /\ cell \notin excluded_items
            THEN <<escape_latex_text(Strip(cell))>> \o rest
            ELSE rest

\* day_name of generate_tables for a 1-based column index
DayName(col_idx) ==
    IF col_idx - 1 < Len(DAY_NAMES) THEN DAY_NAMES[col_idx]
    ELSE "Tag" \o ToString(col_idx)

IsTuesdayThursday(day_name) == day_name \in {"Dienstag", "Donnerstag"}

\* the template of Dienstag and Donnerstag returned whatever the flag
get_row_configurations_AlwaysMidweek(is_tuesday_thursday) ==
    << <<0, "A", "rowCyan">>, <<1, "", "rowCyan">>,
       <<2, "C", "rowGreen">>, <<3, "", "rowGreen">>,
       <<4, "D", "rowRed">> >>

\* get_row_configurations: <<item_idx, pikto_key, row_color>>, "" for None
get_row_configurations(is_tuesday_thursday) ==
    IF is_tuesday_thursday
    THEN << <<0, "A", "rowCyan">>, <<1, "", "rowCyan">>,
            <<2, "C", "rowGreen">>, <<3, "", "rowGreen">>,
            <<4, "D", "rowRed">> >>
    ELSE << <<0, "A", "rowCyan">>, <<1, "", "rowCyan">>,
            <<2, "B", "rowYellow">>,
            <<3, "C", "rowGreen">>, <<4, "", "rowGreen">>,
            <<5, "D", "rowRed">> >>

\* number of slots the item list is cut or padded to
ItemSlots == 6

\* the item list cut to six entries, but not padded
ItemsToShow_NoPadding(all_items) ==
    SubSeq(all_items, 1,
           IF Len(all_items) < ItemSlots THEN Len(all_items) ELSE ItemSlots)

\* items_to_show = all_items[:6] + [""] * (6 - len(all_items))
ItemsToShow(all_items) ==
    SubSeq(all_items, 1,
           IF Len(all_items) < ItemSlots THEN Len(all_items) ELSE ItemSlots)
    \o [i \in 1..(IF Len(all_items) < ItemSlots
                  THEN ItemSlots - Len(all_items) ELSE 0) |-> <<>>]

\* custom_values of _generate_day_table; custom_column_values is a set of
\* <<day name, value list>> pairs, empty for None
CustomValues(custom_column_values, day_name, is_tuesday_thursday) ==
    IF \E e \in custom_column_values : e[1] = day_name
    THEN (CHOOSE e \in custom_column_values : e[1] = day_name)[2]
    ELSE IF is_tuesday_thursday THEN DEFAULT_VALUES_TUESDAY_THURSDAY
         ELSE DEFAULT_VALUES_WEEKDAY

\* the empty illustration cell
NoImage == [kind |-> "empty"]

\* generate_image_for_item: the cell returned after the request ended with
\* outcome ("ok": the image file was written, "fail": generate_image_best
\* returned None)
generate_image_for_item(item, sheet_name, row, col_idx, outcome) ==
    [kind |-> "includegraphics", sheet |-> sheet_name, row |-> row,
     col |-> col_idx]

\* the condition under which _generate_day_table requests an illustration
WantsImage(item) == item # <<>> /\ Strip(item) # <<>>

\* create_table_row
create_table_row(custom_value, pikto_key, img_cell, text_cell, row_color) ==
    [custom |-> escape_latex_text(custom_value), pikto |-> pikto_key,
     img |-> img_cell, text |-> text_cell, color |-> row_color]

\* the row loop of _generate_day_table; outcomes[k] is how the illustration
\* request of row k - 1 ends if one is made
RECURSIVE DayRows(_, _, _, _, _, _, _)
DayRows(row_configs, k, items_to_show, custom_values, sheet, col, outcomes) ==
    IF k > Len(row_configs) THEN <<>>
    ELSE LET item_idx == row_configs[k][1]
             rest == DayRows(row_configs, k + 1, items_to_show, custom_values,
                             sheet, col, outcomes)
         IN IF item_idx >= Len(items_to_show) THEN rest
            ELSE LET item == items_to_show[item_idx + 1]
                     custom_value ==
                         IF k - 1 < Len(custom_values) THEN custom_values[k]
                         ELSE <<>>
                     img_cell ==
                         IF WantsImage(item)
                         THEN generate_image_for_item(item, sheet, k - 1, col,
                                                      outcomes[k])
                         ELSE NoImage
                 IN <<create_table_row(custom_value, row_configs[k][2],
                                       img_cell, item, row_configs[k][3])>>
                    \o rest

\* the illustration requests the row loop makes: <<row, outcome>> in order
RECURSIVE DayRequests(_, _, _, _)
DayRequests(row_configs, k, items_to_show, outcomes) ==
    IF k > Len(row_configs) THEN <<>>
    ELSE LET item_idx == row_configs[k][1]
             rest == DayRequests(row_configs, k + 1, items_to_show, outcomes)
         IN IF item_idx < Len(items_to_show)
               /\ WantsImage(items_to_show[item_idx + 1])
            THEN << <<k - 1, outcomes[k]>> >> \o rest
            ELSE rest

\* threshold of is_pdf_blank
BlankTextLimit == 50

\* text a page yields, as runs <<character, count>>; strip() drops the
\* whitespace runs at both ends
RECURSIVE RunsLen(_)
RunsLen(runs) ==
    IF runs = <<>> THEN 0 ELSE Head(runs)[2] + RunsLen(Tail(runs))

RECURSIVE LStripRuns(_)
LStripRuns(runs) ==
    IF runs # <<>> /\ (Head(runs)[1] \in Whitespace \/ Head(runs)[2] = 0)
    THEN LStripRuns(Tail(runs)) ELSE runs

RECURSIVE RStripRuns(_)
RStripRuns(runs) ==
    IF runs # <<>> /\ (runs[Len(runs)][1] \in Whitespace
                       \/ runs[Len(runs)][2] = 0)
    THEN RStripRuns(SubSeq(runs, 1, Len(runs) - 1)) ELSE runs

StripRuns(runs) == RStripRuns(LStripRuns(runs))

\* is_pdf_blank with a page of exactly 50 characters taken as text
is_pdf_blank_LimitInclusive(pdf) ==
    IF ~pdf.readable THEN TRUE
    ELSE IF Len(pdf.pages) = 0 THEN TRUE
    ELSE ~ \E p \in 1..Len(pdf.pages) :
             RunsLen(StripRuns(pdf.pages[p])) >= BlankTextLimit

\* is_pdf_blank of a file [readable, pages]
is_pdf_blank(pdf) ==
    IF ~pdf.readable THEN TRUE
    ELSE IF Len(pdf.pages) = 0 THEN TRUE
    ELSE ~ \E p \in 1..Len(pdf.pages) :
             RunsLen(StripRuns(pdf.pages[p])) > BlankTextLimit

\* split point of _merge_and_cleanup_pdfs
FirstPartSize == 5

first_part(valid_pdfs) ==
    SubSeq(valid_pdfs, 1,
           IF Len(valid_pdfs) < FirstPartSize THEN Len(valid_pdfs)
           ELSE FirstPartSize)

\* the remainder taken one position too late
second_part_OffByOne(valid_pdfs) ==
    SubSeq(valid_pdfs, FirstPartSize + 2, Len(valid_pdfs))

second_part(valid_pdfs) ==
    SubSeq(valid_pdfs, FirstPartSize + 1, Len(valid_pdfs))

(***************************************************************************)
(* State.                                                                  *)
(***************************************************************************)
VARIABLES
    \* the text functions, applied to an argument on their own
    fn,          \* which function is being applied, "" if none
    fn_text,     \* the raw text argument
    fn_items,    \* the item list argument
    fn_step,     \* "input", "escaped", "unescaped", "classified",
                 \* "blank_checked"
    fn_escaped,  \* result of escape_latex_text(fn_text)
    fn_round,    \* result of unescape_latex_text(fn_escaped)
    fn_content,  \* result of has_content(fn_items)
    fn_pdf,      \* the file at the pdf_path argument: [readable, pages]
    fn_blank,    \* result of is_pdf_blank(pdf_path)
    \* generate_tables
    pc,                    \* position of the run
    raised,                \* the exception that ended the run, "none" if none
    custom_column_values,  \* the parameter: set of <<day, values>>, {} = None
    csv_files,             \* sheet names of the csv files, in listing order
    file_idx,              \* csv files read so far
    col_idx,               \* column index of the day being processed
    generated_pdfs,        \* the list handed to the merge
    pdf_files,             \* per-day documents in pdf_folder: name -> file
    merged,                \* merged documents in pdf_folder: name -> sources
    dirs,                  \* working directories that exist
    \* the day being processed (locals of the loop body and its callees)
    col_df,                \* raw cells of the day column
    all_items,             \* process_menu_items(col_df)
    day_status,            \* "none", "skipped", "unrendered", "blank", "accepted"
    table_rows,            \* rows emitted by _generate_day_table
    img_requests,          \* illustration requests made: <<row, outcome>>
    tex_written,           \* the day's source document was written
    runs,                  \* renderer invocations: [args, status]
    aux_pdf,               \* the day's file in aux_folder: <<>> or <<file>>
    generated_pdf_path     \* compile_latex_robust's value: "unset", "None", "path"

fnvars ==
    <<fn, fn_text, fn_items, fn_step, fn_escaped, fn_round, fn_content,
      fn_pdf, fn_blank>>

runvars ==
    <<pc, raised, custom_column_values, csv_files, file_idx, col_idx,
      generated_pdfs, pdf_files, merged, dirs>>

dayvars ==
    <<col_df, all_items, day_status, table_rows, img_requests, tex_written,
      runs, aux_pdf, generated_pdf_path>>

vars == <<fnvars, runvars, dayvars>>

(***************************************************************************)
(* Inputs of the text functions.                                           *)
(***************************************************************************)
\* characters of the raw texts: one letter, the ten special characters
TextChars == {"a", "&", "%", "$", "#", "_", "{", "}", "~", "^", "\\"}

RECURSIVE SeqsUpTo(_, _)
SeqsUpTo(S, n) ==
    IF n = 0 THEN { <<>> }
    ELSE LET shorter == SeqsUpTo(S, n - 1)
         IN shorter \cup { Append(s, c) : s \in shorter, c \in S }

Texts == SeqsUpTo(TextChars, MaxLen)

\* items handed to has_content
ItemSamples ==
    { <<>>, <<" ">>, <<"-">>, <<" ", "-", " ">>, <<"*">>, <<"*", " ">>,
      <<"n", "a", "n">>, <<"N", "a", "N">>, <<"n", "a">>,
      <<"-", "-">>, <<"S", "o", "u", "p">>, <<" ", "a", "\t">>,
      <<"\f", "-", "\r">> }

ItemLists == SeqsUpTo(ItemSamples, MaxItems)

\* most pages of a file handed to is_pdf_blank
MaxPages == 2

\* what page.extract_text() returns, as runs <<character, count>>
PageSamples ==
    { <<>>,
      << <<"x", 49>> >>,
      << <<"x", 50>> >>,
      << <<"x", 51>> >>,
      << <<" ", 1>>, <<"x", 50>>, <<"\n", 1>> >>,
      << <<"\t", 2>>, <<"x", 51>> >>,
      << <<"x", 25>>, <<" ", 1>>, <<"x", 25>> >>,
      << <<" ", 60>> >>,
      << <<"\r", 1>>, <<"x", 50>>, <<"U+00A0", 2>> >> }

\* a file PdfReader cannot read: the constructor raises
UnreadablePdf == [readable |-> FALSE, pages |-> <<>>]

\* files handed to is_pdf_blank: unreadable, or 0 to MaxPages pages
PdfInputs ==
    {UnreadablePdf}
    \cup { [readable |-> TRUE, pages |-> ps] :
             ps \in SeqsUpTo(PageSamples, MaxPages) }

(***************************************************************************)
(* Inputs and environment of a run of generate_tables.                     *)
(***************************************************************************)
\* day columns (len(df.columns) - 1) of K1.csv and of K2.csv
ColsFirst == 2
ColsSecond == 1

\* what the list comprehension over os.listdir(csv_folder) can give for a
\* folder holding K1.csv and K2.csv: the order of the listing is arbitrary
CsvListings == { <<"K1", "K2">>, <<"K2", "K1">> }

\* number of day columns of the table of a sheet
DayColumnsOf(sheet) == IF sheet = "K1" THEN ColsFirst ELSE ColsSecond

\* number of day columns of the k-th table read
DayColumns(k) == DayColumnsOf(csv_files[k])

\* the folders of the constructor and the csv folder of the caller
tex_folder == "output_tex"
pdf_folder == "Menues"
img_folder == "output_img"
aux_folder == "log"
csv_folder == "csv_files"

\* raw cells of a day column
ColumnSamples ==
    { \* nothing extracted: placeholders and a missing value
      << <<"*">>, <<"-">>, NaN >>,
      \* extracted, but no meaningful item: "-" and "" after stripping
      << <<" ", "-", "\r">>, <<"U+00A0">> >>,
      \* a label, a placeholder with a blank before it, a dish, a placeholder
      << <<"V", "e", "g", "i", " ", "d", "i">>, <<" ", "-">>,
         <<"S", "o", "u", "p">>, <<"*">> >>,
      \* one dish made of a special character only
      << <<"&">> >> }

\* values of the custom_column_values parameter: None, or a dict
CustomColumnSamples ==
    { {},
      { <<"Montag", << <<"0", "8">>, <<"a", "_">> >> >>,
        <<"Dienstag", << <<"1", "2">> >> >> } }

\* documents a renderer pass can leave in aux_folder
TextPdf == [readable |-> TRUE, pages |-> << << <<"x", 51>> >> >>]
BlankPdf ==
    [readable |-> TRUE,
     pages |-> << << <<" ", 1>>, <<"x", 50>>, <<"\n", 1>> >> >>]
PdfSamples == {TextPdf, BlankPdf}

\* the day's file in aux_folder when the day starts: none, or a document an
\* earlier run left there (nothing removes the files of aux_folder)
StaleAux == { <<>> } \cup { <<pdf>> : pdf \in PdfSamples }

\* the folders __init__ creates if they are missing
ConstructorFolders == {tex_folder, pdf_folder, img_folder, aux_folder}

\* the merged documents of an earlier run that accepted seven days
StaleMerged ==
    { [name |-> "Kantine 1.pdf",
       sources |-> << <<"K1", "Montag">>, <<"K1", "Dienstag">>,
                      <<"K1", "Mittwoch">>, <<"K1", "Donnerstag">>,
                      <<"K2", "Montag">> >>],
      [name |-> "Kantine 2.pdf",
       sources |-> << <<"K2", "Dienstag">>, <<"K2", "Mittwoch">> >>] }

\* what pdf_folder can hold when the generator is constructed: __init__
\* removes nothing, so the documents of an earlier run are still there
OutputFolderSamples ==
    { [pdf_files |-> {}, merged |-> {}],
      [pdf_files |-> {}, merged |-> StaleMerged],
      [pdf_files |-> { [name |-> <<"K1", "Montag">>, file |-> TextPdf] },
       merged |-> {}] }

\* how an illustration request can end
ImageOutcomes == {"ok", "fail"}

\* how a renderer invocation can end: exit status 0, another exit status,
\* TimeoutExpired, any other exception of subprocess.run
RunStatuses == {"exit0", "exit1", "timeout", "crash"}

\* statuses with which subprocess.run raises instead of returning
RaisingStatuses == {"timeout", "crash"}

\* the aux_folder file after an invocation with the given status
AuxAfter(status, aux_before) ==
    CASE status = "exit0" -> { <<pdf>> : pdf \in PdfSamples }
      [] status = "exit1" -> { aux_before, <<>> }
      [] OTHER -> { aux_before }

(***************************************************************************)
(* compile_latex_robust.                                                   *)
(***************************************************************************)
\* for _ in range(2)
PassCount == 2

latex_args(tex_basename) ==
    <<"pdflatex", "-interaction=nonstopmode", "-halt-on-error",
      "-output-directory=log", "-synctex=1", tex_basename>>

\* a second pass made only after a first pass with exit status 0
MorePasses_OnlyAfterSuccess(rs) ==
    /\ Len(rs) < PassCount
    /\ rs[Len(rs)].status = "exit0"

\* the loop goes on to another invocation after the runs made so far
MorePasses(rs) ==
    /\ Len(rs) < PassCount
    /\ rs[Len(rs)].status \notin RaisingStatuses

\* the value compile_latex_robust returns once the loop has ended
CompileValue(rs, aux) ==
    IF rs[Len(rs)].status \in RaisingStatuses THEN "None"
    ELSE IF aux # <<>> THEN "path" ELSE "None"

(***************************************************************************)
(* _merge_and_cleanup_pdfs.                                                *)
(***************************************************************************)
PdfExists(files, path) == \E f \in files : f.name = path

PdfAt(files, path) == (CHOOSE f \in files : f.name = path).file

\* valid_pdfs: the paths that exist and are not blank, in list order
valid_pdfs(paths, files) ==
    SelectSeq(paths, LAMBDA path :
        PdfExists(files, path) /\ ~is_pdf_blank(PdfAt(files, path)))

\* the paths of the list the filter removes from disk (existing and blank)
FilterRemoved(paths, files) ==
    { paths[i] : i \in { j \in 1..Len(paths) :
        /\ PdfExists(files, paths[j])
        /\ is_pdf_blank(PdfAt(files, paths[j])) } }

\* the merged documents written for the valid list
MergedDocs(valid) ==
    { [name |-> part[2], sources |-> part[1]] :
        part \in { q \in { <<first_part(valid), "Kantine 1.pdf">>,
                           <<second_part(valid), "Kantine 2.pdf">> } :
                   q[1] # <<>> } }

SeqRange(q) == { q[i] : i \in 1..Len(q) }

(***************************************************************************)
(* Initial states.                                                         *)
(***************************************************************************)
FnIdle ==
    /\ fn = "" /\ fn_text = <<>> /\ fn_items = <<>> /\ fn_step = "input"
    /\ fn_escaped = <<>> /\ fn_round = <<>> /\ fn_content = FALSE
    /\ fn_pdf = UnreadablePdf /\ fn_blank = FALSE

\* the locals of a day before the day starts
DayCleared ==
    /\ col_df = <<>> /\ all_items = <<>> /\ day_status = "none"
    /\ table_rows = <<>> /\ img_requests = <<>> /\ tex_written = FALSE
    /\ runs = <<>> /\ aux_pdf = <<>> /\ generated_pdf_path = "unset"

\* the locals of generate_tables before the call
RunCleared ==
    /\ raised = "none" /\ csv_files = <<>> /\ file_idx = 0 /\ col_idx = 0
    /\ generated_pdfs = <<>>

\* a working directory no earlier run has used, with the caller's csv folder
FreshFolders ==
    /\ pdf_files = {} /\ merged = {}
    /\ dirs = ConstructorFolders \cup {csv_folder}

\* after LaTeXMenuGenerator(csv_folder): the four folders of the
\* constructor exist, csv_folder exists if the caller made it, and
\* pdf_folder holds what it held before
Init ==
    /\ FnIdle
    /\ pc = "start"
    /\ custom_column_values \in CustomColumnSamples
    /\ RunCleared
    /\ \E out \in OutputFolderSamples :
        /\ pdf_files = out.pdf_files
        /\ merged = out.merged
    /\ dirs \in {ConstructorFolders, ConstructorFolders \cup {csv_folder}}
    /\ DayCleared

InitFn ==
    /\ fn_step = "input"
    /\ fn_escaped = <<>>
    /\ fn_round = <<>>
    /\ fn_content = FALSE
    /\ fn_blank = FALSE
    /\ \/ /\ fn = "escape" /\ fn_text \in Texts /\ fn_items = <<>>
          /\ fn_pdf = UnreadablePdf
       \/ /\ fn = "has_content" /\ fn_text = <<>> /\ fn_items \in ItemLists
          /\ fn_pdf = UnreadablePdf
       \/ /\ fn = "is_pdf_blank" /\ fn_text = <<>> /\ fn_items = <<>>
          /\ fn_pdf \in PdfInputs
    /\ pc = "idle"
    /\ custom_column_values = {}
    /\ RunCleared
    /\ FreshFolders
    /\ DayCleared

\* escaped = escape_latex_text(text)
ApplyEscape ==
    /\ fn = "escape" /\ fn_step = "input"
    /\ fn_escaped' = escape_latex_text(fn_text)
    /\ fn_step' = "escaped"
    /\ UNCHANGED <<fn, fn_text, fn_items, fn_round, fn_content, fn_pdf,
                   fn_blank, runvars, dayvars>>

\* unescape_latex_text applied to the escaped text
ApplyUnescape ==
    /\ fn = "escape" /\ fn_step = "escaped"
    /\ fn_round' = unescape_latex_text(fn_escaped)
    /\ fn_step' = "unescaped"
    /\ UNCHANGED <<fn, fn_text, fn_items, fn_escaped, fn_content, fn_pdf,
                   fn_blank, runvars, dayvars>>

\* has_content applied to the item list
ApplyHasContent ==
    /\ fn = "has_content" /\ fn_step = "input"
    /\ fn_content' = has_content(fn_items)
    /\ fn_step' = "classified"
    /\ UNCHANGED <<fn, fn_text, fn_items, fn_escaped, fn_round, fn_pdf,
                   fn_blank, runvars, dayvars>>

\* is_pdf_blank applied to the file
ApplyIsPdfBlank ==
    /\ fn = "is_pdf_blank" /\ fn_step = "input"
    /\ fn_blank' = is_pdf_blank(fn_pdf)
    /\ fn_step' = "blank_checked"
    /\ UNCHANGED <<fn, fn_text, fn_items, fn_escaped, fn_round, fn_content,
                   fn_pdf, runvars, dayvars>>

NextFn ==
    \/ ApplyEscape
    \/ ApplyUnescape
    \/ ApplyHasContent
    \/ ApplyIsPdfBlank

SpecFn == InitFn /\ [][NextFn]_vars

(***************************************************************************)
(* generate_tables, one step of the run per action.                        *)
(***************************************************************************)
\* csv_files = [f for f in os.listdir(self.csv_folder) ...]: the listing in
\* one of its orders, or FileNotFoundError if the folder does not exist
ListCsvFiles ==
    /\ pc = "start"
    /\ IF csv_folder \in dirs
       THEN csv_files' \in CsvListings /\ pc' = "listed" /\ raised' = raised
       ELSE csv_files' = csv_files /\ pc' = "aborted" /\ raised' = "listdir"
    /\ UNCHANGED <<custom_column_values, file_idx, col_idx, generated_pdfs,
                   pdf_files, merged, dirs, dayvars, fnvars>>

\* the column loop of the current table has ended (or no table was read yet)
ColumnsDone ==
    \/ pc = "listed"
    \/ pc \in {"columns", "day_done"} /\ col_idx = DayColumns(file_idx)

sheet_name == csv_files[file_idx]

\* the day's base name, of its source, compiled and final documents
DayFile == <<sheet_name, DayName(col_idx)>>

\* the argument of has_content at the gate of generate_tables
GateItems(items) == [i \in 1..Len(items) |-> unescape_latex_text(items[i])]

\* a new iteration starts with none of the previous day's results
ResetDay ==
    /\ table_rows' = <<>> /\ img_requests' = <<>> /\ tex_written' = FALSE
    /\ runs' = <<>> /\ generated_pdf_path' = "unset"

\* df = self.read_csv_with_encoding(csv_path): the next table is read, or
\* pandas raises and nothing catches it
ReadCsv ==
    /\ ColumnsDone
    /\ file_idx < Len(csv_files)
    /\ file_idx' = file_idx + 1
    /\ col_idx' = 0
    /\ \/ pc' = "columns" /\ raised' = raised
       \/ pc' = "aborted" /\ raised' = "read_csv"
    /\ ResetDay
    /\ col_df' = <<>> /\ all_items' = <<>> /\ day_status' = "none"
    /\ aux_pdf' = <<>>
    /\ UNCHANGED <<custom_column_values, csv_files, generated_pdfs, pdf_files,
                   merged, dirs, fnvars>>

\* top of the column loop: the items are extracted and the day is skipped
\* unless has_content finds content in the unescaped items
BeginDay ==
    /\ pc \in {"columns", "day_done"}
    /\ col_idx < DayColumns(file_idx)
    /\ col_idx' = col_idx + 1
    /\ \E cells \in ColumnSamples :
        /\ col_df' = cells
        /\ all_items' = process_menu_items(cells)
    /\ IF has_content(GateItems(all_items'))
       THEN pc' = "rows" /\ day_status' = "none"
       ELSE pc' = "day_done" /\ day_status' = "skipped"
    /\ ResetDay
    /\ aux_pdf' \in StaleAux
    /\ UNCHANGED <<raised, custom_column_values, csv_files, file_idx, generated_pdfs,
                   pdf_files, merged, dirs, fnvars>>

\* the row loop of _generate_day_table, illustration requests included
BuildRows ==
    /\ pc = "rows"
    /\ \E outcomes \in [1..ItemSlots -> ImageOutcomes] :
        LET day_name == DayName(col_idx)
            is_tt == IsTuesdayThursday(day_name)
            items_to_show == ItemsToShow(all_items)
            row_configs == get_row_configurations(is_tt)
        IN /\ table_rows' =
                DayRows(row_configs, 1, items_to_show,
                        CustomValues(custom_column_values, day_name, is_tt),
                        sheet_name, col_idx, outcomes)
           /\ img_requests' =
                DayRequests(row_configs, 1, items_to_show, outcomes)
    /\ pc' = "write"
    /\ UNCHANGED <<raised, custom_column_values, csv_files, file_idx, col_idx,
                   generated_pdfs, pdf_files, merged, dirs, col_df, all_items,
                   day_status, tex_written, runs, aux_pdf, generated_pdf_path,
                   fnvars>>

\* with open(tex_file, 'w') ...: the source is written, or the write raises
WriteTex ==
    /\ pc = "write"
    /\ \/ tex_written' = TRUE /\ pc' = "compile" /\ raised' = raised
       \/ tex_written' = tex_written /\ pc' = "aborted"
          /\ raised' = "write_tex"
    /\ UNCHANGED <<custom_column_values, csv_files, file_idx, col_idx, generated_pdfs,
                   pdf_files, merged, dirs, col_df, all_items, day_status,
                   table_rows, img_requests, runs, aux_pdf,
                   generated_pdf_path, fnvars>>

\* one subprocess.run of compile_latex_robust; the call returns its value
\* once the loop has ended
RunPdflatex ==
    /\ pc = "compile"
    /\ \E status \in RunStatuses :
        /\ runs' = Append(runs, [args |-> latex_args(DayFile),
                                 status |-> status])
        /\ aux_pdf' \in AuxAfter(status, aux_pdf)
    /\ IF MorePasses(runs')
       THEN pc' = "compile" /\ generated_pdf_path' = generated_pdf_path
       ELSE pc' = "compiled"
            /\ generated_pdf_path' = CompileValue(runs', aux_pdf')
    /\ UNCHANGED <<raised, custom_column_values, csv_files, file_idx, col_idx,
                   generated_pdfs, pdf_files, merged, dirs, col_df, all_items,
                   day_status, table_rows, img_requests, tex_written, fnvars>>

\* the end of _generate_day_table and the append of generate_tables
FinishDay ==
    /\ pc = "compiled"
    /\ IF generated_pdf_path = "path" /\ ~is_pdf_blank(aux_pdf[1])
       THEN \/ \* shutil.move succeeds
               /\ pdf_files' =
                    { f \in pdf_files : f.name # DayFile }
                    \cup { [name |-> DayFile, file |-> aux_pdf[1]] }
               /\ aux_pdf' = <<>>
               /\ generated_pdfs' = Append(generated_pdfs, DayFile)
               /\ day_status' = "accepted"
               /\ pc' = "day_done" /\ raised' = raised
            \/ \* shutil.move raises
               /\ pc' = "aborted" /\ raised' = "move_pdf"
               /\ UNCHANGED <<pdf_files, aux_pdf, generated_pdfs, day_status>>
       ELSE IF generated_pdf_path = "path"
       THEN \* blank: os.remove(generated_pdf_path)
            /\ aux_pdf' = <<>>
            /\ day_status' = "blank"
            /\ pc' = "day_done"
            /\ UNCHANGED <<raised, pdf_files, generated_pdfs>>
       ELSE /\ day_status' = "unrendered"
            /\ pc' = "day_done"
            /\ UNCHANGED <<raised, pdf_files, generated_pdfs, aux_pdf>>
    /\ UNCHANGED <<custom_column_values, csv_files, file_idx, col_idx, merged, dirs,
                   col_df, all_items, table_rows, img_requests, tex_written,
                   runs, generated_pdf_path, fnvars>>

\* the body of _merge_and_cleanup_pdfs(generated_pdfs)
MergeBody ==
    /\ LET valid == valid_pdfs(generated_pdfs, pdf_files)
           kept == { f \in pdf_files :
                       f.name \notin FilterRemoved(generated_pdfs, pdf_files) }
       IN IF valid = <<>>
          THEN \* if not valid_pdfs: return
               /\ pdf_files' = kept
               /\ UNCHANGED <<merged, dirs>>
          ELSE /\ merged' =
                    { m \in merged :
                        \A d \in MergedDocs(valid) : d.name # m.name }
                    \cup MergedDocs(valid)
               /\ pdf_files' = { f \in kept : f.name \notin SeqRange(valid) }
               /\ dirs' = dirs \ {tex_folder, img_folder, "csv_files"}
    /\ pc' = "done"
    /\ UNCHANGED <<raised, custom_column_values, csv_files, file_idx, col_idx,
                   generated_pdfs, dayvars, fnvars>>

\* self._merge_and_cleanup_pdfs(generated_pdfs), after the last table
MergeAndCleanup ==
    /\ ColumnsDone
    /\ file_idx = Len(csv_files)
    /\ MergeBody

Next ==
    \/ ListCsvFiles
    \/ ReadCsv
    \/ BeginDay
    \/ BuildRows
    \/ WriteTex
    \/ RunPdflatex
    \/ FinishDay
    \/ MergeAndCleanup

Spec == Init /\ [][Next]_vars

(***************************************************************************)
(* _generate_day_table called on its own, up to the end of its row loop.   *)
(***************************************************************************)
\* longest all_items argument
MaxDayItems == 7
\* largest col_idx argument
MaxDayIndex == 4

Soup == <<"S", "o", "u", "p">>
Salad == <<"S", "a", "l", "a", "d">>

\* the item list of the end-to-end scenario
ScenarioItems == <<Soup, <<>>, <<"-">>, Salad, <<>>, <<>>>>

\* n dishes with pairwise different names
Dishes(n) == [i \in 1..n |-> <<"d", ToString(i)>>]

\* values of the all_items argument: every length from 0 to MaxDayItems
DayItemSamples ==
    {ScenarioItems, <<Soup, <<"-">>>>, <<<<" ", "\r">>, <<"*">>, <<"&">>>>}
    \cup { Dishes(n) : n \in 0..MaxDayItems }

\* the call _generate_day_table(sheet_name, day_name, col_name, col_idx,
\* all_items, is_tuesday_thursday, custom_column_values) with the day name
\* and the flag generate_tables derives from col_idx
InitDay ==
    /\ FnIdle
    /\ pc = "rows"
    /\ raised = "none"
    /\ custom_column_values \in CustomColumnSamples
    /\ csv_files \in CsvListings
    /\ file_idx = 1
    /\ col_idx \in 1..MaxDayIndex
    /\ generated_pdfs = <<>>
    /\ FreshFolders
    /\ col_df = <<>>
    /\ all_items \in DayItemSamples
    /\ day_status = "none"
    /\ table_rows = <<>> /\ img_requests = <<>> /\ tex_written = FALSE
    /\ runs = <<>> /\ aux_pdf = <<>> /\ generated_pdf_path = "unset"

NextDay == BuildRows

SpecDay == InitDay /\ [][NextDay]_vars

(***************************************************************************)
(* _merge_and_cleanup_pdfs called on its own.                              *)
(***************************************************************************)
\* longest generated_pdfs argument
MaxAccepted == 7

\* the paths of the generated_pdfs argument, in an order that is not sorted
MergePaths(n) ==
    [i \in 1..n |-> IF i <= 3 THEN <<"K2", DayName(i)>>
                    ELSE <<"K1", DayName(i - 3)>>]

\* what is at a path of the list: a document with text, a blank document,
\* or nothing
PathContents == {"text", "blank", "missing"}

\* the call _merge_and_cleanup_pdfs(generated_pdfs), with pdf_folder holding
\* the files of the list and the merged documents of an earlier run, if any
InitMerge ==
    /\ FnIdle
    /\ pc = "merge"
    /\ custom_column_values = {}
    /\ raised = "none" /\ csv_files = <<>> /\ file_idx = 0 /\ col_idx = 0
    /\ \E n \in 0..MaxAccepted : \E content \in [1..n -> PathContents] :
        /\ generated_pdfs = MergePaths(n)
        /\ pdf_files =
             { [name |-> MergePaths(n)[i],
                file |-> IF content[i] = "text" THEN TextPdf ELSE BlankPdf] :
               i \in { j \in 1..n : content[j] # "missing" } }
    /\ merged \in { {}, StaleMerged }
    /\ dirs = ConstructorFolders \cup {csv_folder}
    /\ DayCleared

CallMerge ==
    /\ pc = "merge"
    /\ MergeBody

NextMerge == CallMerge

SpecMerge == InitMerge /\ [][NextMerge]_vars

(***************************************************************************)
(* Properties.                                                             *)
(***************************************************************************)
\* sub occurs in s
Contains(s, sub) ==
    \E i \in 1..(Len(s) - Len(sub) + 1) :
        SubSeq(s, i, i + Len(sub) - 1) = sub

\* the raw text already contains one of the escape sequences
HasEscapeSequence(t) ==
    \E k \in 1..Len(reverse_mapping) : Contains(t, reverse_mapping[k][1])

\* C1: for every raw text without a pre-existing escape sequence,
\* unescaping the escaped text gives the raw text back.
C1_RoundTrip ==
    (fn_step = "unescaped" /\ ~HasEscapeSequence(fn_text))
        => fn_round = fn_text

\* the mapped sequence of one raw character, the character itself if it is
\* not special
EscapeOfChar(c) ==
    IF \E k \in 1..Len(LATEX_SPECIAL_CHARS) : LATEX_SPECIAL_CHARS[k][1] = c
    THEN LATEX_SPECIAL_CHARS[
            CHOOSE k \in 1..Len(LATEX_SPECIAL_CHARS) :
                LATEX_SPECIAL_CHARS[k][1] = c][2]
    ELSE <<c>>

RECURSIVE EscapedOnce(_)
EscapedOnce(t) ==
    IF t = <<>> THEN <<>> ELSE EscapeOfChar(Head(t)) \o EscapedOnce(Tail(t))

\* C2: the escaped text is the concatenation, character by character, of
\* the mapped sequence of each special character and of each other
\* character itself: no rule re-escapes what an earlier rule introduced.
C2_EscapedExactlyOnce ==
    fn_step \in {"escaped", "unescaped"} => fn_escaped = EscapedOnce(fn_text)

\* C3: a failed illustration request leaves the illustration cell of its
\* row empty (the row carries only the text).
C3_FailedRequestLeavesCellEmpty ==
    \A i \in 1..Len(img_requests) :
        img_requests[i][2] = "fail"
            => table_rows[img_requests[i][1] + 1].img = NoImage

\* the run has ended, by returning or by an exception
RunEnded == pc \in {"done", "aborted"}

\* C4: whatever fails in a single day, the run goes on: when it ends, every
\* day-column of every table has been processed and the merge was reached.
C4_DayFailureNeverEndsRun ==
    (RunEnded /\ raised \notin {"listdir", "read_csv"})
        => /\ pc = "done"
           /\ file_idx = Len(csv_files)
           /\ col_idx = DayColumns(file_idx)

\* C5: at the end of a run no per-day document is left in the output
\* folder and the working directories are gone, whatever was accepted.
C5_NothingLeftAtEnd ==
    pc = "done"
        => /\ pdf_files = {}
           /\ dirs \cap {tex_folder, img_folder, csv_folder} = {}

\* the accepted outputs of the list handed to the merge: the paths at which
\* a document that is not blank exists, in list order
AcceptedOutputs ==
    SelectSeq(generated_pdfs, LAMBDA path :
        \E f \in pdf_files : f.name = path /\ ~is_pdf_blank(f.file))

\* the documents of a name in a folder content
DocsNamed(docs, name) == { m \in docs : m.name = name }

\* C6: the merge keeps the accepted outputs in the order of its list (not
\* sorted) and writes the first 5 to "Kantine 1.pdf" and the remainder to
\* "Kantine 2.pdf"; an empty partition produces no document (what the
\* folder held under that name stays as it was); every accepted output is
\* in exactly one document written, exactly once.
C6_MergePartition ==
    [][ (pc # "done" /\ pc' = "done") =>
        LET accepted == AcceptedOutputs
            n == Len(accepted)
            first == SubSeq(accepted, 1, IF n < 5 THEN n ELSE 5)
            rest == SubSeq(accepted, 6, n)
            written ==
                (IF n > 0 THEN DocsNamed(merged', "Kantine 1.pdf") ELSE {})
                \cup (IF n > 5 THEN DocsNamed(merged', "Kantine 2.pdf") ELSE {})
        IN /\ DocsNamed(merged', "Kantine 1.pdf")
                = IF n > 0
                  THEN { [name |-> "Kantine 1.pdf", sources |-> first] }
                  ELSE DocsNamed(merged, "Kantine 1.pdf")
           /\ DocsNamed(merged', "Kantine 2.pdf")
                = IF n > 5
                  THEN { [name |-> "Kantine 2.pdf", sources |-> rest] }
                  ELSE DocsNamed(merged, "Kantine 2.pdf")
           /\ \A m \in merged' :
                m.name \in {"Kantine 1.pdf", "Kantine 2.pdf"}
           /\ \A k \in 1..n :
                Cardinality({ pos \in { <<m, i>> : m \in written, i \in 1..n } :
                                /\ pos[2] <= Len(pos[1].sources)
                                /\ pos[1].sources[pos[2]] = accepted[k] })
                    = 1 ]_vars

C6_Witness ==
    /\ pc = "done"
    /\ Len(generated_pdfs) = 7
    /\ \E m \in merged :
        /\ m.name = "Kantine 1.pdf"
        /\ m.sources = SubSeq(generated_pdfs, 1, 5)
        /\ m.sources[1][1] = "K2" /\ m.sources[5][1] = "K1"
    /\ \E m \in merged :
        /\ m.name = "Kantine 2.pdf"
        /\ m.sources = SubSeq(generated_pdfs, 6, 7)

\* both passes ran and each ended with exit status 0
RenderingSucceeded ==
    /\ Len(runs) = PassCount
    /\ \A i \in 1..Len(runs) : runs[i].status = "exit0"

\* C7: when _generate_day_table returns, the day is accepted if and only if
\* rendering succeeded, the compiled output exists and it is not blank; a
\* failed rendering leaves the day unrendered and a blank output is deleted
\* and never listed for the merge.
C7_AcceptedIffRendered ==
    [][ (pc = "compiled" /\ pc' = "day_done")
            => /\ (day_status' = "accepted")
                    <=> /\ RenderingSucceeded
                        /\ aux_pdf # <<>>
                        /\ ~is_pdf_blank(aux_pdf[1])
               /\ ~RenderingSucceeded => day_status' = "unrendered"
               /\ (aux_pdf # <<>> /\ is_pdf_blank(aux_pdf[1])
                   /\ RenderingSucceeded)
                    => /\ aux_pdf' = <<>>
                       /\ generated_pdfs' = generated_pdfs ]_vars

\* C8: the renderer is invoked in two passes with identical arguments, the
\* second whenever the first returns, whatever its exit status; an
\* invocation that times out (or raises) is the last one and the compile
\* fails; a path is returned only if the output file exists after both
\* passes.
C8_TwoPassCompile ==
    /\ Len(runs) <= 2
    /\ \A i, j \in 1..Len(runs) : runs[i].args = runs[j].args
    /\ \A i \in 1..Len(runs) :
        runs[i].status \in RaisingStatuses
            => i = Len(runs) /\ generated_pdf_path = "None"
    /\ pc = "compile" => generated_pdf_path = "unset"
    /\ generated_pdf_path # "unset"
        => /\ runs # <<>>
           /\ runs[1].status \notin RaisingStatuses => Len(runs) = 2
    /\ generated_pdf_path = "path"
        => /\ Len(runs) = 2
           /\ \A i \in 1..Len(runs) : runs[i].status \notin RaisingStatuses
           /\ pc = "compiled" => aux_pdf # <<>>

C8_Witness ==
    /\ pc = "compiled"
    /\ Len(runs) = 2
    /\ runs[1].status = "exit1"
    /\ generated_pdf_path = "path"

\* spec 4.2: an item is meaningful unless, trimmed, it is empty, "-", "*"
\* or "nan"
FirstNonSpace(s) ==
    CHOOSE i \in 1..Len(s) :
        s[i] \notin Whitespace /\ \A j \in 1..(i - 1) : s[j] \in Whitespace

LastNonSpace(s) ==
    CHOOSE i \in 1..Len(s) :
        s[i] \notin Whitespace
        /\ \A j \in (i + 1)..Len(s) : s[j] \in Whitespace

Trimmed(s) ==
    IF \A i \in 1..Len(s) : s[i] \in Whitespace THEN <<>>
    ELSE SubSeq(s, FirstNonSpace(s), LastNonSpace(s))

Meaningful(item) ==
    /\ Trimmed(item) # <<>>
    /\ Trimmed(item) # <<"-">>
    /\ Trimmed(item) # <<"*">>
    /\ Trimmed(item) # <<"n", "a", "n">>

\* the raw text of the extracted items of a column: the cells that are
\* neither missing nor excluded, trimmed
RECURSIVE ExtractedRaw(_)
ExtractedRaw(cells) ==
    IF cells = <<>> THEN <<>>
    ELSE IF Head(cells) = NaN \/ Head(cells) \in excluded_items
         THEN ExtractedRaw(Tail(cells))
         ELSE <<Trimmed(Head(cells))>> \o ExtractedRaw(Tail(cells))

\* a day has been started in the current table
DayStarted ==
    pc \in {"rows", "write", "compile", "compiled", "day_done"}
    \/ (pc = "aborted" /\ raised \notin {"listdir", "read_csv"})

\* C9: a day whose extracted items, unescaped, are all non-meaningful is
\* skipped before any image request, source document or renderer
\* invocation; a day with a meaningful item in its raw text is not skipped.
C9_NoContentNeverRendered ==
    DayStarted =>
        /\ (day_status = "skipped")
            <=> ~ \E i \in 1..Len(all_items) :
                    Meaningful(unescape_latex_text(all_items[i]))
        /\ day_status = "skipped"
            => /\ img_requests = <<>> /\ table_rows = <<>>
               /\ ~tex_written /\ runs = <<>>
        /\ (\E i \in 1..Len(ExtractedRaw(col_df)) :
                Meaningful(ExtractedRaw(col_df)[i]))
            => day_status # "skipped"

C9_Witness ==
    /\ pc = "day_done"
    /\ day_status = "skipped"
    /\ Len(all_items) = 2

\* C10: has_content is true exactly when some item is meaningful; it is
\* false for the empty list.
C10_HasContentIffMeaningful ==
    fn_step = "classified"
        => /\ fn_content <=> \E i \in 1..Len(fn_items) : Meaningful(fn_items[i])
           /\ Len(fn_items) = 0 => ~fn_content

C10_Witness ==
    /\ fn_step = "classified"
    /\ fn_content
    /\ Len(fn_items) = 2
    /\ ~Meaningful(fn_items[1])
    /\ Meaningful(fn_items[2])

\* the row loop of _generate_day_table has run for the day
RowsBuilt == pc = "write"

\* the day has no entry in custom_column_values: the defaults apply
UsesDefaultValues ==
    ~ \E e \in custom_column_values : e[1] = DayName(col_idx)

\* the rows for which an illustration was requested
RequestedRows == { img_requests[i][1] : i \in 1..Len(img_requests) }

\* C11: in the scenario of a standard day with the items
\* ["Soup", "", "-", "Salad", "", ""], one row is emitted per slot 0 to 5,
\* each with the left-column default of its row, and an illustration is
\* requested for slots 0 and 3 only: none for an empty slot or for "-".
C11_ScenarioRequestsTwoImages ==
    (/\ RowsBuilt
     /\ all_items = ScenarioItems
     /\ ~IsTuesdayThursday(DayName(col_idx))
     /\ UsesDefaultValues)
        => /\ Len(table_rows) = 6
           /\ \A k \in 1..Len(table_rows) :
                /\ table_rows[k].text = ScenarioItems[k]
                /\ table_rows[k].custom
                     = <<<<>>, <<>>, <<"T">>, <<"E">>, <<"S">>, <<>>>>[k]
                /\ table_rows[k].img # NoImage <=> k - 1 \in {0, 3}
           /\ RequestedRows = {0, 3}

\* the two templates as the specification states them: <<slot, icon, band>>
StandardTemplate ==
    << <<0, "A", "rowCyan">>, <<1, "", "rowCyan">>, <<2, "B", "rowYellow">>,
       <<3, "C", "rowGreen">>, <<4, "", "rowGreen">>, <<5, "D", "rowRed">> >>

MidweekTemplate ==
    << <<0, "A", "rowCyan">>, <<1, "", "rowCyan">>, <<2, "C", "rowGreen">>,
       <<3, "", "rowGreen">>, <<4, "D", "rowRed">> >>

\* the item of a slot: the slot's entry of all_items, empty if there is none
SlotText(slot) ==
    IF slot + 1 <= Len(all_items) THEN all_items[slot + 1] ELSE <<>>

\* C12: the rows of a day follow one of two fixed templates: the midweek
\* one (5 rows on slots 0 to 4, icons A, C, D on slots 0, 2, 4, bands
\* cyan, cyan, green, green, red) exactly for the days labelled Dienstag and
\* Donnerstag, the standard one (6 rows on slots 0 to 5, icons A, B, C, D
\* on slots 0, 2, 3, 5, bands cyan, cyan, yellow, green, green, red) for
\* every other day.
C12_TemplateByDay ==
    RowsBuilt =>
        LET template ==
                IF DayName(col_idx) \in {"Dienstag", "Donnerstag"}
                THEN MidweekTemplate ELSE StandardTemplate
        IN /\ Len(template) = IF DayName(col_idx) \in {"Dienstag", "Donnerstag"}
                              THEN 5 ELSE 6
           /\ Len(table_rows) = Len(template)
           /\ \A k \in 1..Len(table_rows) :
                /\ template[k][1] = k - 1
                /\ table_rows[k].text = SlotText(template[k][1])
                /\ table_rows[k].pikto = template[k][2]
                /\ table_rows[k].color = template[k][3]

C12_Witness ==
    /\ RowsBuilt
    /\ DayName(col_idx) = "Donnerstag"
    /\ all_items = Dishes(6)
    /\ Len(table_rows) = 5
    /\ table_rows[3].pikto = "C"
    /\ table_rows[5].text = <<"d", "5">>

\* the characters of a page text given as runs
RECURSIVE PageChars(_)
PageChars(page) ==
    IF page = <<>> THEN <<>>
    ELSE [i \in 1..Head(page)[2] |-> Head(page)[1]] \o PageChars(Tail(page))

\* length of a page's extracted text after trimming
TrimmedLength(page) == Len(Trimmed(PageChars(page)))

\* C13: is_pdf_blank is true if and only if the file has no page, or every
\* page's extracted text is at most 50 characters long after trimming, or
\* reading the file raises; a longest page of exactly 50 trimmed characters
\* is blank, a page of 51 is not.
C13_BlankIffNoLongPage ==
    fn_step = "blank_checked" =>
        LET pages == fn_pdf.pages
        IN /\ fn_blank
                <=> \/ ~fn_pdf.readable
                    \/ Len(pages) = 0
                    \/ \A p \in 1..Len(pages) : TrimmedLength(pages[p]) <= 50
           /\ (/\ fn_pdf.readable
               /\ \E p \in 1..Len(pages) : TrimmedLength(pages[p]) = 50
               /\ \A p \in 1..Len(pages) : TrimmedLength(pages[p]) <= 50)
                => fn_blank
           /\ (/\ fn_pdf.readable
               /\ \E p \in 1..Len(pages) : TrimmedLength(pages[p]) = 51)
                => ~fn_blank

C13_Witness ==
    /\ fn_step = "blank_checked"
    /\ fn_blank
    /\ fn_pdf.readable
    /\ Len(fn_pdf.pages) = 2
    /\ TrimmedLength(fn_pdf.pages[1]) = 49
    /\ TrimmedLength(fn_pdf.pages[2]) = 50
    /\ Len(PageChars(fn_pdf.pages[2])) = 52

\* the left-column value list of the day being processed
LeftValues ==
    CustomValues(custom_column_values, DayName(col_idx),
                 IsTuesdayThursday(DayName(col_idx)))

\* C14: whatever the number of extracted items, the item list used for the
\* rows has exactly 6 entries (the first six items, then empty strings), no
\* row of the day's template is skipped, so as many rows are emitted as the
\* template has, and a row with no entry in the left-column value list gets
\* the empty string as its left-column value.
C14_SixSlotsNoRowSkipped ==
    RowsBuilt =>
        /\ Len(ItemsToShow(all_items)) = 6
        /\ \A i \in 1..Len(ItemsToShow(all_items)) :
                ItemsToShow(all_items)[i] = SlotText(i - 1)
        /\ Len(table_rows)
             = IF IsTuesdayThursday(DayName(col_idx)) THEN 5 ELSE 6
        /\ \A k \in 1..Len(table_rows) :
                /\ table_rows[k].text = SlotText(k - 1)
                /\ k > Len(LeftValues) => table_rows[k].custom = <<>>

C14_Witness ==
    /\ RowsBuilt
    /\ Len(all_items) = 7
    /\ Len(table_rows) = 6
    /\ Len(LeftValues) = 2
    /\ table_rows[2].custom # <<>>
    /\ table_rows[3].custom = <<>>
    /\ table_rows[6].text = <<"d", "6">>

====
